---- MODULE Spec2Model ----
(***************************************************************************)
(* The X11 main loop of herbstluftwm (src/src/xmainloop.cpp): XMainLoop's  *)
(* run(), collectZombies(), quit(), the event handlers that read the       *)
(* event queue, the quit flag or the enter guard, and the callbacks that   *)
(* drain EnterNotify events.                                               *)
(*                                                                         *)
(* The display connection is two queues: `wire` holds the events the       *)
(* server has generated and Xlib has not read yet, `queue` is Xlib's local *)
(* event queue. XSync moves all of `wire` to `queue`; XQLength is the      *)
(* length of `queue`; XNextEvent removes the head of `queue`;              *)
(* XCheckMaskEvent removes the first event of `queue` that matches a mask  *)
(* and reads what has arrived on the connection when it finds none.        *)
(***************************************************************************)
EXTENDS Integers, Sequences, FiniteSets, TLC

\* ------------------------------------------------------------------ bounds
\* events the server has generated and the loop has not taken yet
MaxQueue == 3
\* exited children not waited for yet
MaxChildren == 1
\* the words of a call of callCommand
MaxCall == 3

\* ------------------------------------------------- X11 protocol constants
KeyPress == 2
ButtonPress == 4
ButtonRelease == 5
MotionNotify == 6
EnterNotify == 7
FocusIn == 9
FocusOut == 10
Expose == 12
CreateNotify == 16
DestroyNotify == 17
UnmapNotify == 18
MapNotify == 19
MapRequest == 20
ConfigureNotify == 22
ConfigureRequest == 23
PropertyNotify == 28
SelectionClear == 29
ClientMessage == 33
MappingNotify == 34
LASTEvent == 36

NotifyNormal == 0
NotifyGrab == 1
NotifyAncestor == 0
NotifyInferior == 2
NotifyNonlinear == 3
NotifyNonlinearVirtual == 4

\* the bits of XConfigureRequestEvent.value_mask
CWX == 1
CWY == 2
CWWidth == 4
CWHeight == 8

Button1 == 1
Button3 == 3

\* the masks handed to XCheckMaskEvent, as the set of event types each selects
ButtonMotionMask == {MotionNotify}
FocusChangeMask == {FocusIn, FocusOut}
EnterWindowMask == {EnterNotify}

\* WEXITSTATUS of an exited child
ExitStatuses == {0, 1}

\* ------------------------------------------------------------ the windows
None == "None"
RootWindow == "root"
\* root_->ewmh_.windowManagerWindow()
WmWindow == "wmwindow"
\* two client windows and their decoration windows
W1 == "w1"
W2 == "w2"
D1 == "dec1"
D2 == "dec2"
\* the decoration window of an empty frame, and that frame
FrameWin == "framewin"
EmptyFrame == "emptyframe"
\* the frame leaf that holds the clients
ClientLeaf == "clientleaf"
\* root_->ewmh_.windowManagerSelection(), and some other atom
WmSelection == "WM_S0"
OtherSelection == "PRIMARY"

\* ------------------------------------------------------------- the events
NoEvent ==
    [type |-> 0, window |-> None, event |-> None, send_event |-> FALSE,
     mode |-> 0, detail |-> 0, focus |-> FALSE, button |-> 0,
     x_root |-> 0, y_root |-> 0, selection |-> None]

\* root-relative pointer positions
Points == {<<1, 7>>, <<2, 5>>}

Motion(p) == [NoEvent EXCEPT !.type = MotionNotify, !.x_root = p[1], !.y_root = p[2]]
Focus(t, w, d) == [NoEvent EXCEPT !.type = t, !.window = w, !.detail = d]
SelClear(s, w) == [NoEvent EXCEPT !.type = SelectionClear, !.selection = s, !.window = w]
Crossing(w, m, d, f) ==
    [NoEvent EXCEPT !.type = EnterNotify, !.window = w, !.mode = m,
                    !.detail = d, !.focus = f]
Unmap(w, ev, se) ==
    [NoEvent EXCEPT !.type = UnmapNotify, !.window = w, !.event = ev,
                    !.send_event = se]
Button(t, w, b) == [NoEvent EXCEPT !.type = t, !.window = w, !.button = b]

MotionEvents == {Motion(p) : p \in Points}

FocusEvents ==
    {Focus(FocusIn, W2, NotifyNonlinear), Focus(FocusIn, W2, NotifyAncestor),
     Focus(FocusIn, WmWindow, NotifyNonlinearVirtual),
     Focus(FocusOut, W2, NotifyNonlinear)}

SelectionClearEvents ==
    {SelClear(WmSelection, WmWindow), SelClear(WmSelection, W1),
     SelClear(OtherSelection, WmWindow)}

UnmapEvents ==
    {Unmap(W2, W2, FALSE), Unmap(W2, RootWindow, FALSE), Unmap(W1, W1, TRUE),
     Unmap(W1, RootWindow, TRUE)}

\* those reported on the window itself
UnmapOfWindow == {e \in UnmapEvents : e.event = e.window}

ButtonPressEvents ==
    {Button(ButtonPress, W2, Button1), Button(ButtonPress, D2, Button1),
     Button(ButtonPress, D2, Button3), Button(ButtonPress, FrameWin, Button1)}

ButtonReleaseEvent == Button(ButtonRelease, W2, Button1)

\* -------------------------------------------------------- the environment
\* What surrounds the loop in one behaviour: the events the server generates,
\* whether child processes exist, the settings and the layout of the tag.
Environment(sends, children, ffm, floating, max) ==
    [sends |-> sends, children |-> children, focus_follows_mouse |-> ffm,
     floating |-> floating, max |-> max]

Scenarios ==
    {Environment(MotionEvents \cup {ButtonReleaseEvent}, FALSE, TRUE, FALSE, FALSE),
     Environment(FocusEvents, FALSE, TRUE, FALSE, FALSE),
     Environment(SelectionClearEvents \cup {Motion(<<1, 7>>)}, FALSE, TRUE, FALSE, FALSE),
     Environment({Motion(<<1, 7>>)}, TRUE, TRUE, FALSE, FALSE),
     Environment(UnmapOfWindow \cup {Crossing(W2, NotifyNormal, NotifyAncestor, FALSE)},
                 FALSE, TRUE, FALSE, FALSE),
     Environment((UnmapEvents \ UnmapOfWindow)
                 \cup {Crossing(W2, NotifyNormal, NotifyAncestor, FALSE)},
                 FALSE, TRUE, FALSE, FALSE),
     Environment({Button(ButtonPress, D2, Button1), ButtonReleaseEvent,
                  Crossing(W2, NotifyNormal, NotifyAncestor, FALSE)},
                 FALSE, TRUE, FALSE, FALSE),
     Environment(ButtonPressEvents, FALSE, TRUE, FALSE, FALSE),
     Environment({Crossing(W2, NotifyNormal, NotifyAncestor, FALSE),
                  Crossing(D2, NotifyNormal, NotifyNonlinear, FALSE),
                  Crossing(D1, NotifyNormal, NotifyNonlinear, FALSE),
                  Crossing(FrameWin, NotifyNormal, NotifyAncestor, FALSE)},
                 FALSE, TRUE, FALSE, TRUE),
     Environment({Crossing(W2, NotifyNormal, NotifyAncestor, FALSE),
                  Crossing(W2, NotifyNormal, NotifyAncestor, TRUE),
                  Crossing(W2, NotifyGrab, NotifyAncestor, FALSE),
                  Crossing(W2, NotifyNormal, NotifyInferior, FALSE)},
                 FALSE, TRUE, FALSE, FALSE),
     Environment({Crossing(W2, NotifyNormal, NotifyAncestor, FALSE),
                  Crossing(FrameWin, NotifyNormal, NotifyAncestor, FALSE)},
                 FALSE, FALSE, FALSE, FALSE)}

\* XCheckMaskEvent's test of one event against the mask
Matches(mask, e) == e.type \in mask

\* the events of q the mask selects, and the others, in queue order
Selected(q, mask) == SelectSeq(q, LAMBDA e : Matches(mask, e))
Unselected(q, mask) == SelectSeq(q, LAMBDA e : ~Matches(mask, e))

Last(s) == s[Len(s)]

VARIABLES
    pc,                \* where run() is
    wire,              \* events generated by the server, not read by Xlib yet
    queue,             \* Xlib's local event queue
    event,             \* run()'s XEvent
    aboutToQuit_,
    duringEnterNotify_,
    zombies,           \* exited children not waited for: <<pid, exit status>>
    intr,              \* select() has been interrupted by SIGCHLD
    emitted,           \* what the running or last collectZombies() emitted
    clients,           \* the windows of the managed clients
    focus,             \* the window of clients->focus(), or None
    frameFocus,        \* the focused frame
    dragged,           \* the window of clients->dragged, or None
    env,               \* the environment of this behaviour
    trace,             \* what the handler of `event` has done so far
    call,              \* callCommand: the call received
    commandCalls,           \* callCommand: the calls of Commands::call
    result,            \* callCommand: the CallResult returned, or NoResult
    cre,               \* configurerequest: the request and the client it is for
    float_size_,       \* configurerequest: client->float_size_
    sent,              \* configurerequest: the calls it made
    handled,           \* configurerequest has returned
    world,             \* scan: what the X server and EWMH say of each window
    importTagsFromEwmh,
    spc,               \* scan: where scanExistingClients is
    todo,              \* scan: the windows the running loop has yet to visit
    managedClients,    \* scan: the windows clientmanager has a client for
    panels,            \* scan: the windows registered as panels
    desktops,          \* scan: the windows registered as desktop windows
    scanCalls,         \* scan: the calls scanExistingClients has made
    mapreq,            \* maprequest: the request and what is known of its window
    minimized_,        \* maprequest: the client's minimized_
    mapSent,           \* maprequest: the calls it made
    mapDone,           \* maprequest has returned
    delivered,         \* lookup: the event XNextEvent returned
    handler,           \* lookup: what run() read from handlerTable_
    outside            \* lookup: the read was outside handlerTable_

loopvars == <<pc, wire, queue, event, aboutToQuit_, duringEnterNotify_, zombies,
              intr, emitted, clients, focus, frameFocus, dragged, env, trace>>
\* the variables of the operations that run() does not call
callvars == <<call, commandCalls, result>>
configvars == <<cre, float_size_, sent, handled>>
scanvars == <<world, importTagsFromEwmh, spc, todo, managedClients, panels,
              desktops, scanCalls>>
mapvars == <<mapreq, minimized_, mapSent, mapDone>>
dispatchvars == <<delivered, handler, outside>>
sidevars == <<callvars, configvars, scanvars, mapvars, dispatchvars>>
vars == <<loopvars, sidevars>>

xvars == <<wire, queue, event>>
childvars == <<zombies, intr, emitted>>
modelvars == <<clients, focus, frameFocus, dragged>>

\* ------------------------------------------------------- the handler table
\* XMainLoop::XMainLoop: handlerTable_() is all nullptr, then one entry per
\* handler
handlerTable_ ==
    [t \in 0..(LASTEvent - 1) |->
        CASE t = ButtonPress      -> "buttonpress"
          [] t = ButtonRelease    -> "buttonrelease"
          [] t = ClientMessage    -> "clientmessage"
          [] t = ConfigureNotify  -> "configurenotify"
          [] t = ConfigureRequest -> "configurerequest"
          [] t = CreateNotify     -> "createnotify"
          [] t = DestroyNotify    -> "destroynotify"
          [] t = EnterNotify      -> "enternotify"
          [] t = Expose           -> "expose"
          [] t = FocusIn          -> "focusin"
          [] t = KeyPress         -> "keypress"
          [] t = MapNotify        -> "mapnotify"
          [] t = MapRequest       -> "maprequest"
          [] t = MappingNotify    -> "mappingnotify"
          [] t = MotionNotify     -> "motionnotify"
          [] t = PropertyNotify   -> "propertynotify"
          [] t = UnmapNotify      -> "unmapnotify"
          [] t = SelectionClear   -> "selectionclear"
          [] OTHER                -> "nullptr"]

\* the lookup, one entry off
HandlerForOffByOne(e) == handlerTable_[e.type - 1]

\* run(): EventHandler handler = handlerTable_[event.type]
HandlerFor(e) == handlerTable_[e.type]

\* --------------------------------------------------------- Xlib primitives
\* The connection as a handler sees it while it runs: the two queues and the
\* calls made so far
Call(op, ev, arg) == [op |-> op, ev |-> ev, arg |-> arg]
Conn(q, w, calls) == [queue |-> q, wire |-> w, calls |-> calls]
Do(x, op, ev, arg) == [x EXCEPT !.calls = Append(@, Call(op, ev, arg))]

\* XSync(display, False): every event generated so far is in the local queue
XSync(x) == Conn(x.queue \o x.wire, <<>>, Append(x.calls, Call("XSync", NoEvent, <<>>)))

\* The loop `while (XCheckMaskEvent(display, mask, &ev)) {}` when k further
\* events have arrived on the connection: it takes every selected event of
\* the local queue and of those k, oldest first, and leaves the others. Each
\* call is recorded with the number of events it searched past.
CheckMaskLoopTaken(x, k, mask) == Selected(x.queue \o SubSeq(x.wire, 1, k), mask)
CheckMaskLoop(x, k, mask) ==
    LET avail == x.queue \o SubSeq(x.wire, 1, k)
        taken == CheckMaskLoopTaken(x, k, mask)
        at(j) == CHOOSE p \in 1..Len(avail) :
                    /\ Matches(mask, avail[p])
                    /\ Cardinality({i \in 1..p : Matches(mask, avail[i])}) = j
    IN  Conn(Unselected(avail, mask),
             SubSeq(x.wire, k + 1, Len(x.wire)),
             x.calls \o [j \in 1..Len(taken) |->
                            Call("XCheckMaskEvent", taken[j], <<at(j) - j>>)])

\* XNextEvent, were it to return the newest event of the queue
XNextEventNewest(q) == q[Len(q)]

\* XNextEvent(display, &event): the head of the local queue
XNextEvent(q) == Head(q)
XNextEventLeft(q) == Tail(q)

\* ------------------------------------------------------------ collaborators
\* ClientManager::client(window)
ClientOf(w) == IF w \in clients THEN w ELSE None

\* Decoration::toClient(window), client->dec->decorationWindow()
DecorationWindow(c) == IF c = W1 THEN D1 ELSE IF c = W2 THEN D2 ELSE None
DecorationToClient(w) ==
    IF w = D1 /\ W1 \in clients THEN W1
    ELSE IF w = D2 /\ W2 \in clients THEN W2 ELSE None

\* FrameDecoration::withWindow(window)->frame()
FrameOfDecoration(w) == IF w = FrameWin THEN EmptyFrame ELSE None

\* c->tag()->frame->root_->frameWithClient(c)->focusedClient(): the clients
\* share one leaf, whose selection follows the focus
LeafFocusedClient == focus

\* the state of the model after focus_client(target, ...)
FocusAfter(target) == IF target = None THEN focus ELSE target
FrameAfter(target) == IF target = None THEN frameFocus ELSE ClientLeaf

\* ---------------------------------------------------------------- callbacks
\* dropEnterNotifyEvents, were it to drop the events of every type
dropEveryEvent(x) ==
    IF duringEnterNotify_
    THEN x
    ELSE CheckMaskLoop(XSync(x), 0, 0..(LASTEvent - 1))

\* dropEnterNotifyEvents without the test of duringEnterNotify_
dropEnterNotifyEventsUnguarded(x) == CheckMaskLoop(XSync(x), 0, EnterWindowMask)

\* XMainLoop::dropEnterNotifyEvents, connected to monitors->dropEnterNotifyEvents
dropEnterNotifyEvents(x) ==
    IF duringEnterNotify_
    THEN x
    ELSE CheckMaskLoop(XSync(x), 0, EnterWindowMask)

\* draggedClientChanges emptying the queue before it releases the pointer
draggedClientChangesDrainFirst(x, draggedClient) ==
    IF draggedClient # None
    THEN Do(x, "XGrabPointer", NoEvent, <<draggedClient>>)
    ELSE Do(CheckMaskLoop(XSync(x), 0, EnterWindowMask),
            "XUngrabPointer", NoEvent, <<>>)

\* XMainLoop::draggedClientChanges, connected to clients->dragged.changed()
draggedClientChanges(x, draggedClient) ==
    IF draggedClient # None
    THEN Do(x, "XGrabPointer", NoEvent, <<draggedClient>>)
    ELSE CheckMaskLoop(XSync(Do(x, "XUngrabPointer", NoEvent, <<>>)), 0,
                       EnterWindowMask)

\* focus_client(target, ...) as the loop sees it: the call, and the signal
\* monitors->dropEnterNotifyEvents when the layout is applied again
focus_client(x, target, signal) ==
    LET called == Do(x, "focus_client", NoEvent, <<target>>)
    IN  IF signal /\ target # None
        THEN dropEnterNotifyEvents(Do(called, "dropEnterNotifyEvents", NoEvent, <<>>))
        ELSE called

\* root_->focusFrame(frame)
focusFrame(x, frame, signal) ==
    LET called == Do(x, "focusFrame", NoEvent, <<frame>>)
    IN  IF signal
        THEN dropEnterNotifyEvents(Do(called, "dropEnterNotifyEvents", NoEvent, <<>>))
        ELSE called

\* clients->dragged = d: the signal dragged.changed() fires when the value
\* changes
SetDragged(x, d) == IF d # dragged THEN draggedClientChanges(x, d) ELSE x

\* Rectangle, XConfigureRequestEvent with the state of the client it is for
Rectangle(x, y, width, height) == [x |-> x, y |-> y, width |-> width, height |-> height]
ConfigureRequests ==
    [window : {W1},
     managed : BOOLEAN,
     sizehints_floating_ : BOOLEAN,
     floated : BOOLEAN,
     pseudotile_ : BOOLEAN,
     visible : {TRUE},
     float_size_ : {Rectangle(5, 5, 10, 10)},
     last_size_ : {Rectangle(7, 8, 10, 10)},
     origin : {<<2, 1>>},
     value_mask : SUBSET {CWX, CWY, CWWidth, CWHeight},
     x : {5, 6}, y : {5, 6}, width : {10, 20}, height : {10, 20}]
    \cup
    [window : {W1}, managed : {TRUE}, sizehints_floating_ : {TRUE},
     floated : {FALSE}, pseudotile_ : {TRUE}, visible : {FALSE},
     float_size_ : {Rectangle(5, 5, 10, 10)},
     last_size_ : {Rectangle(7, 8, 10, 10)},
     origin : {<<0, 0>>},
     value_mask : {{CWX}, {CWWidth, CWHeight}},
     x : {6}, y : {5}, width : {20}, height : {10}]
NoRequest ==
    [window |-> None, managed |-> FALSE, sizehints_floating_ |-> FALSE,
     floated |-> FALSE, pseudotile_ |-> FALSE, visible |-> FALSE,
     float_size_ |-> Rectangle(0, 0, 0, 0), last_size_ |-> Rectangle(0, 0, 0, 0),
     origin |-> <<0, 0>>, value_mask |-> {}, x |-> 0, y |-> 0,
     width |-> 0, height |-> 0]

NoResult == [exitCode |-> -1, output |-> "", error |-> ""]

\* ------------------------------------------------------------------- Init
\* the operations that run() does not call have not run
CallIdle ==
    /\ call = <<>>
    /\ commandCalls = <<>>
    /\ result = NoResult

ConfigIdle ==
    /\ cre = NoRequest
    /\ float_size_ = cre.float_size_
    /\ sent = <<>>
    /\ handled = FALSE

ScanIdle ==
    /\ world = <<>>
    /\ importTagsFromEwmh = FALSE
    /\ spc = "idle"
    /\ todo = <<>>
    /\ managedClients = {}
    /\ panels = {}
    /\ desktops = {}
    /\ scanCalls = <<>>

MapIdle ==
    /\ mapreq = <<>>
    /\ minimized_ = FALSE
    /\ mapSent = <<>>
    /\ mapDone = FALSE

DispatchIdle ==
    /\ delivered = NoEvent
    /\ handler = "unread"
    /\ outside = FALSE

SideIdle == CallIdle /\ ConfigIdle /\ ScanIdle /\ MapIdle /\ DispatchIdle

LoopInit ==
    /\ pc = "scan"
    /\ wire = <<>>
    /\ queue = <<>>
    /\ event = NoEvent
    /\ aboutToQuit_ = FALSE
    /\ duringEnterNotify_ = FALSE
    /\ zombies = <<>>
    /\ intr = FALSE
    /\ emitted = {}
    /\ clients = {W1, W2}
    /\ focus = W1
    /\ frameFocus = ClientLeaf
    /\ dragged = None
    /\ trace = <<>>

Init == LoopInit /\ env \in Scenarios /\ SideIdle

\* ------------------------------------------------------------ environment
\* the server generates an event
ServerEvent ==
    /\ pc # "done"
    /\ Len(queue) + Len(wire) < MaxQueue
    /\ \E e \in env.sends : wire' = Append(wire, e)
    /\ UNCHANGED <<pc, queue, event, aboutToQuit_, duringEnterNotify_,
                   childvars, modelvars, env, trace>>
    /\ UNCHANGED sidevars

\* a child process exits: SIGCHLD interrupts select() only if the process is
\* blocked in it
ChildExit ==
    /\ pc # "done"
    /\ env.children
    /\ Len(zombies) < MaxChildren
    /\ \E pid \in 1..MaxChildren, status \in ExitStatuses :
          /\ \A i \in 1..Len(zombies) : zombies[i][1] # pid
          /\ zombies' = Append(zombies, <<pid, status>>)
    /\ intr' = (intr \/ pc = "wait")
    /\ UNCHANGED <<pc, xvars, aboutToQuit_, duringEnterNotify_, emitted,
                   modelvars, env, trace>>
    /\ UNCHANGED sidevars

\* ------------------------------------------------------ scanExistingClients
\* X_.queryTree(X_.root()) is a round trip: the events that arrived before
\* its reply are read into the local queue
scanExistingClients ==
    /\ pc = "scan"
    /\ queue' = queue \o wire
    /\ wire' = <<>>
    /\ pc' = "loop"
    /\ UNCHANGED <<event, aboutToQuit_, duringEnterNotify_, childvars,
                   modelvars, env, trace>>
    /\ UNCHANGED sidevars

\* -------------------------------------------------------------------- run
\* while (!aboutToQuit_)
LoopTest ==
    /\ pc = "loop"
    /\ pc' = IF aboutToQuit_ THEN "done" ELSE "reap1"
    /\ emitted' = {}
    /\ UNCHANGED <<xvars, aboutToQuit_, duringEnterNotify_, zombies, intr,
                   modelvars, env, trace>>
    /\ UNCHANGED sidevars

\* XMainLoop::quit
quit == TRUE

\* collectZombies(): waitpid(-1, &childInfo, WNOHANG) returns an exited
\* child, childExited.emit(...) calls the subscribers. A subscriber is code
\* outside XMainLoop: it may call quit(), and it may talk to the X server,
\* which reads the arrived events into the local queue.
Reap ==
    /\ pc \in {"reap1", "reap2"}
    /\ zombies # <<>>
    /\ \E i \in 1..Len(zombies) :
          /\ emitted' = emitted \cup {zombies[i]}
          /\ zombies' = [j \in 1..(Len(zombies) - 1) |->
                            IF j < i THEN zombies[j] ELSE zombies[j + 1]]
    /\ \E subscriber \in {"none", "quit", "sync"} :
          /\ aboutToQuit_' = IF subscriber = "quit" THEN quit ELSE aboutToQuit_
          /\ queue' = IF subscriber = "sync" THEN queue \o wire ELSE queue
          /\ wire' = IF subscriber = "sync" THEN <<>> ELSE wire
    /\ UNCHANGED <<pc, event, duringEnterNotify_, intr, modelvars, env, trace>>
    /\ UNCHANGED sidevars

\* collectZombies(): childPid <= 0, break
ReapDone ==
    /\ pc \in {"reap1", "reap2"}
    /\ zombies = <<>>
    /\ pc' = IF pc = "reap1" THEN "select" ELSE "check"
    /\ UNCHANGED <<xvars, aboutToQuit_, duringEnterNotify_, childvars,
                   modelvars, env, trace>>
    /\ UNCHANGED sidevars

\* FD_ZERO, FD_SET, and the call of select(): the process blocks
Select ==
    /\ pc = "select"
    /\ pc' = "wait"
    /\ intr' = FALSE
    /\ UNCHANGED <<xvars, aboutToQuit_, duringEnterNotify_, zombies, emitted,
                   modelvars, env, trace>>
    /\ UNCHANGED sidevars

\* run() without the collectZombies() that follows select()
WakeWithoutReaping ==
    /\ pc = "wait"
    /\ wire # <<>> \/ intr
    /\ pc' = "check"
    /\ intr' = FALSE
    /\ emitted' = {}
    /\ UNCHANGED <<xvars, aboutToQuit_, duringEnterNotify_, zombies,
                   modelvars, env, trace>>
    /\ UNCHANGED sidevars

\* select() returns: the connection is readable, or a signal interrupted it
Wake ==
    /\ pc = "wait"
    /\ wire # <<>> \/ intr
    /\ pc' = "reap2"
    /\ intr' = FALSE
    /\ emitted' = {}
    /\ UNCHANGED <<xvars, aboutToQuit_, duringEnterNotify_, zombies,
                   modelvars, env, trace>>
    /\ UNCHANGED sidevars

\* if (aboutToQuit_) break; XSync(X_.display(), False);
QuitCheck ==
    /\ pc = "check"
    /\ IF aboutToQuit_
         THEN /\ pc' = "done"
              /\ UNCHANGED <<wire, queue>>
         ELSE /\ pc' = "drain"
              /\ queue' = queue \o wire
              /\ wire' = <<>>
    /\ UNCHANGED <<event, aboutToQuit_, duringEnterNotify_, childvars,
                   modelvars, env, trace>>
    /\ UNCHANGED sidevars

\* while (XQLength(X_.display())) { XNextEvent(X_.display(), &event); ...
Drain ==
    /\ pc = "drain"
    /\ IF Len(queue) = 0
         THEN /\ pc' = "loop"
              /\ UNCHANGED <<queue, event, trace>>
         ELSE /\ event' = XNextEvent(queue)
              /\ queue' = XNextEventLeft(queue)
              /\ trace' = <<>>
              /\ pc' = "handle"
    /\ UNCHANGED <<wire, aboutToQuit_, duringEnterNotify_, childvars,
                   modelvars, env>>
    /\ UNCHANGED sidevars

\* if (handler != nullptr) is false: no handler runs
NoHandler ==
    /\ pc = "handle"
    /\ HandlerFor(event) = "nullptr"
    /\ pc' = "watch"
    /\ UNCHANGED <<xvars, aboutToQuit_, duringEnterNotify_, childvars,
                   modelvars, env, trace>>
    /\ UNCHANGED sidevars

\* root_->watchers->scanForChanges(); XSync(X_.display(), False);
Watch ==
    /\ pc = "watch"
    /\ queue' = queue \o wire
    /\ wire' = <<>>
    /\ pc' = "drain"
    /\ event' = NoEvent
    /\ trace' = <<>>
    /\ UNCHANGED <<aboutToQuit_, duringEnterNotify_, childvars, modelvars, env>>
    /\ UNCHANGED sidevars

\* ---------------------------------------------------------- the handlers
\* (this ->* handler)(&event): handler h is entered
Entered(h) ==
    /\ pc = "handle"
    /\ HandlerFor(event) = h

\* the connection when handler h starts
Start(h) == Conn(queue, wire, <<Call(h, event, <<>>)>>)

\* the handler returning to the test of the drain loop
ReturnPastWatchers(x) ==
    /\ queue' = x.queue
    /\ wire' = x.wire
    /\ trace' = x.calls
    /\ pc' = "drain"

\* the handler returns, leaving the connection as x
Return(x) ==
    /\ queue' = x.queue
    /\ wire' = x.wire
    /\ trace' = x.calls
    /\ pc' = "watch"

\* selectionclear with `||` for `&&`
selectionclearEither ==
    /\ Entered("selectionclear")
    /\ aboutToQuit_' =
          IF event.selection = WmSelection \/ event.window = WmWindow
          THEN quit ELSE aboutToQuit_
    /\ Return(Start("selectionclear"))
    /\ UNCHANGED <<event, duringEnterNotify_, childvars, modelvars, env>>
    /\ UNCHANGED sidevars

\* XMainLoop::selectionclear
selectionclear ==
    /\ Entered("selectionclear")
    /\ aboutToQuit_' =
          IF event.selection = WmSelection /\ event.window = WmWindow
          THEN quit ELSE aboutToQuit_
    /\ Return(Start("selectionclear"))
    /\ UNCHANGED <<event, duringEnterNotify_, childvars, modelvars, env>>
    /\ UNCHANGED sidevars

\* the loop overwriting *event, were it to stop at the first event it takes
NewestFirstTaken(ev, taken) == IF taken = <<>> THEN ev ELSE Head(taken)

\* *event after `while (XCheckMaskEvent(display, mask, (XEvent*)event)) {}`:
\* every event taken overwrites it
Newest(ev, taken) == IF taken = <<>> THEN ev ELSE Last(taken)

\* XMainLoop::motionnotify
motionnotify ==
    /\ Entered("motionnotify")
    /\ \E k \in 0..Len(wire) :
          LET x0 == Start("motionnotify")
              taken == CheckMaskLoopTaken(x0, k, ButtonMotionMask)
              newest == Newest(event, taken)
              newCursorPos == <<newest.x_root, newest.y_root>>
          IN  /\ event' = newest
              /\ Return(Do(CheckMaskLoop(x0, k, ButtonMotionMask),
                           "handle_motion_event", NoEvent, newCursorPos))
    /\ UNCHANGED <<aboutToQuit_, duringEnterNotify_, childvars, modelvars, env>>
    /\ UNCHANGED sidevars

\* the test of focusin without the comparison with the current focus
StealsFocusAnyWindow(e, currentFocus) ==
    /\ e.type = FocusIn
    /\ e.detail \in {NotifyNonlinear, NotifyNonlinearVirtual}

\* focusin: the two conditions under which focus_client is called
StealsFocus(e, currentFocus) ==
    /\ e.type = FocusIn
    /\ e.detail \in {NotifyNonlinear, NotifyNonlinearVirtual}
    /\ e.window # currentFocus

\* XMainLoop::focusin
focusin ==
    /\ Entered("focusin")
    /\ \E k \in 0..Len(wire), signal \in BOOLEAN :
          LET x0 == Start("focusin")
              taken == CheckMaskLoopTaken(x0, k, FocusChangeMask)
              newest == Newest(event, taken)
              currentFocus == IF focus # None THEN focus ELSE None
              steals == StealsFocus(newest, currentFocus)
              target == ClientOf(newest.window)
              x1 == CheckMaskLoop(x0, k, FocusChangeMask)
          IN  /\ event' = newest
              /\ Return(IF steals THEN focus_client(x1, target, signal) ELSE x1)
              /\ focus' = IF steals THEN FocusAfter(target) ELSE focus
              /\ frameFocus' = IF steals THEN FrameAfter(target) ELSE frameFocus
    /\ UNCHANGED <<aboutToQuit_, duringEnterNotify_, childvars, clients,
                   dragged, env>>
    /\ UNCHANGED sidevars

\* enternotify following the pointer also into the window that has the focus
FollowsMouseWhateverFocus(e) ==
    /\ dragged = None
    /\ env.focus_follows_mouse

\* enternotify: !mouse_is_dragging() && focus_follows_mouse() &&
\* ce->focus == false
FollowsMouse(e) ==
    /\ dragged = None
    /\ env.focus_follows_mouse
    /\ e.focus = FALSE

\* the test of enternotify, were it to spare only the tiling layouts that
\* are not max
HidesOutsideMax(c) ==
    /\ c # None
    /\ env.floating = FALSE
    /\ ~env.max
    /\ LeafFocusedClient # c

\* enternotify's test that following the pointer would hide another window:
\* c is on a tiling tag, in a leaf with the max layout that selects another
\* client
Hides(c) ==
    /\ c # None
    /\ env.floating = FALSE
    /\ env.max
    /\ LeafFocusedClient # c

\* enternotify setting duringEnterNotify_ before the test for ignored events
enternotifyGuardFirst ==
    /\ Entered("enternotify")
    /\ trace' = <<Call("enternotify", event, <<>>)>>
    /\ duringEnterNotify_' = TRUE
    /\ pc' = IF event.mode # NotifyNormal \/ event.detail = NotifyInferior
             THEN "watch" ELSE "enternotify"
    /\ UNCHANGED <<xvars, aboutToQuit_, childvars, modelvars, env>>
    /\ UNCHANGED sidevars

\* XMainLoop::enternotify, to the point where duringEnterNotify_ is set
enternotify ==
    /\ Entered("enternotify")
    /\ trace' = <<Call("enternotify", event, <<>>)>>
    /\ IF event.mode # NotifyNormal \/ event.detail = NotifyInferior
         THEN /\ pc' = "watch"
              /\ UNCHANGED duringEnterNotify_
         ELSE /\ pc' = "enternotify"
              /\ duringEnterNotify_' = TRUE
    /\ UNCHANGED <<xvars, aboutToQuit_, childvars, modelvars, env>>
    /\ UNCHANGED sidevars

\* XMainLoop::enternotify, from there to its end
enternotifyBody ==
    /\ pc = "enternotify"
    /\ \E signal \in BOOLEAN :
          LET decorationClient == DecorationToClient(event.window)
              x0 == Conn(queue, wire, trace)
              x1 == IF decorationClient # None
                    THEN Do(x0, "updateResizeAreaCursors", NoEvent, <<decorationClient>>)
                    ELSE x0
              follows == FollowsMouse(event)
              c == IF ClientOf(event.window) # None
                   THEN ClientOf(event.window) ELSE decorationClient
              hides == Hides(c)
              focuses == follows /\ ~hides /\ c # None
              frame == FrameOfDecoration(event.window)
              frames == follows /\ c = None /\ frame # None
          IN  /\ Return(IF focuses THEN focus_client(x1, c, signal)
                        ELSE IF frames THEN focusFrame(x1, frame, signal)
                        ELSE x1)
              /\ focus' = IF focuses THEN FocusAfter(c) ELSE focus
              /\ frameFocus' = IF focuses THEN FrameAfter(c)
                               ELSE IF frames THEN frame ELSE frameFocus
    /\ duringEnterNotify_' = FALSE
    /\ UNCHANGED <<event, aboutToQuit_, childvars, clients, dragged, env>>
    /\ UNCHANGED sidevars

\* unmapnotify without the comparison of window and event
unmapnotifyNotifiesAlways ==
    /\ Entered("unmapnotify")
    /\ \E unmanages \in BOOLEAN :
          LET x0 == Start("unmapnotify")
              notified == TRUE
              gone == notified /\ unmanages /\ event.window \in clients
              x1 == IF notified
                    THEN Do(x0, "unmap_notify", NoEvent, <<event.window>>)
                    ELSE x0
              x2 == IF gone /\ dragged = event.window THEN SetDragged(x1, None) ELSE x1
              x3 == IF event.send_event
                    THEN Do(x2, "XUnmapWindow", NoEvent, <<event.window>>)
                    ELSE x2
          IN  /\ Return(CheckMaskLoop(XSync(x3), 0, EnterWindowMask))
              /\ clients' = IF gone THEN clients \ {event.window} ELSE clients
              /\ focus' = IF gone /\ focus = event.window THEN None ELSE focus
              /\ dragged' = IF gone /\ dragged = event.window THEN None ELSE dragged
    /\ UNCHANGED <<event, aboutToQuit_, duringEnterNotify_, childvars,
                   frameFocus, env>>
    /\ UNCHANGED sidevars

\* XMainLoop::unmapnotify. clients()->unmap_notify(window) lets the client
\* manager unmanage the client, or not.
unmapnotify ==
    /\ Entered("unmapnotify")
    /\ \E unmanages \in BOOLEAN :
          LET x0 == Start("unmapnotify")
              notified == event.window = event.event
              gone == notified /\ unmanages /\ event.window \in clients
              x1 == IF notified
                    THEN Do(x0, "unmap_notify", NoEvent, <<event.window>>)
                    ELSE x0
              x2 == IF gone /\ dragged = event.window THEN SetDragged(x1, None) ELSE x1
              x3 == IF event.send_event
                    THEN Do(x2, "XUnmapWindow", NoEvent, <<event.window>>)
                    ELSE x2
          IN  /\ Return(CheckMaskLoop(XSync(x3), 0, EnterWindowMask))
              /\ clients' = IF gone THEN clients \ {event.window} ELSE clients
              /\ focus' = IF gone /\ focus = event.window THEN None ELSE focus
              /\ dragged' = IF gone /\ dragged = event.window THEN None ELSE dragged
    /\ UNCHANGED <<event, aboutToQuit_, duringEnterNotify_, childvars,
                   frameFocus, env>>
    /\ UNCHANGED sidevars

\* buttonpress passing the press to the client whatever the mouse manager did
PassedToClientAlways(consumed, client) == client # None

\* buttonpress: the press goes to the client when mouse_handle_event did not
\* handle it and the window is a client's or a client's decoration
PassedToClient(consumed, client) == ~consumed /\ client # None

\* XMainLoop::buttonpress. The mouse manager says whether a binding consumed
\* the press, the decoration says what lies at the position of the click, and
\* mouse_initiate_move and mouse_initiate_resize start a drag or refuse to.
buttonpress ==
    /\ Entered("buttonpress")
    /\ \E consumed \in BOOLEAN, tab \in clients \cup {None},
          drag \in {"resize", "move", "refused"}, signal \in BOOLEAN :
          LET resize == drag = "resize"
              starts == drag # "refused"
              x0 == Do(Start("buttonpress"), "mouse_handle_event", NoEvent,
                       <<event.button, event.window, consumed>>)
              client == IF ClientOf(event.window) # None
                        THEN ClientOf(event.window)
                        ELSE DecorationToClient(event.window)
              onDecoration == client # None /\ event.window = DecorationWindow(client)
              tabClient == IF onDecoration /\ event.button = Button1 THEN tab ELSE None
              target == IF tabClient # None THEN tabClient ELSE client
              focuses == PassedToClient(consumed, client)
              initiates == focuses /\ tabClient = None /\ onDecoration
              x1 == IF focuses THEN focus_client(x0, target, signal) ELSE x0
              x2 == IF initiates
                    THEN Do(x1, IF resize THEN "mouse_initiate_resize"
                                ELSE "mouse_initiate_move", NoEvent, <<client>>)
                    ELSE x1
              drags == initiates /\ starts
              x3 == IF drags THEN SetDragged(x2, client) ELSE x2
              frame == FrameOfDecoration(event.window)
              x4 == IF frame # None THEN focusFrame(x3, frame, signal) ELSE x3
          IN  /\ Return(Do(x4, "XAllowEvents", NoEvent, <<>>))
              /\ focus' = IF focuses THEN FocusAfter(target) ELSE focus
              /\ frameFocus' = IF frame # None THEN frame
                               ELSE IF focuses THEN FrameAfter(target)
                               ELSE frameFocus
              /\ dragged' = IF drags THEN client ELSE dragged
    /\ UNCHANGED <<event, aboutToQuit_, duringEnterNotify_, childvars,
                   clients, env>>
    /\ UNCHANGED sidevars

\* XMainLoop::buttonrelease: root_->mouse->mouse_stop_drag() ends the drag
\* there is
buttonrelease ==
    /\ Entered("buttonrelease")
    /\ Return(SetDragged(Do(Start("buttonrelease"), "mouse_stop_drag", NoEvent, <<>>),
                         None))
    /\ dragged' = None
    /\ UNCHANGED <<event, aboutToQuit_, duringEnterNotify_, childvars,
                   clients, focus, frameFocus, env>>
    /\ UNCHANGED sidevars

\* ------------------------------------------------------------------- Next
Next ==
    \/ ServerEvent
    \/ ChildExit
    \/ scanExistingClients
    \/ LoopTest
    \/ Reap
    \/ ReapDone
    \/ Select
    \/ Wake
    \/ QuitCheck
    \/ Drain
    \/ NoHandler
    \/ Watch
    \/ selectionclear
    \/ motionnotify
    \/ focusin
    \/ enternotify
    \/ enternotifyBody
    \/ unmapnotify
    \/ buttonpress
    \/ buttonrelease

Spec == Init /\ [][Next]_vars

\* ------------------------------------------------------------ callCommand
\* run() has not been started
LoopAtRest == LoopInit /\ env = Environment({}, FALSE, TRUE, FALSE, FALSE)

\* the words of a call, and the calls of up to MaxCall words
Words == {"", "a", "b"}
Calls == UNION {[1..k -> Words] : k \in 0..MaxCall}
\* what Commands::call returns, and what it writes to a channel
ExitCodes == {0, 1}
Texts == {"", "x", "y"}

\* Input(command, args)
Input(command, args) == [command |-> command, args |-> args]

\* the input built without leaving the command name out of the arguments
InputOfWholeCall(c) == IF c = <<>> THEN Input("", c) ELSE Input(c[1], c)

\* callCommand: Input("", call) for the empty call, else
\* Input(call[0], vector<string>(call.begin() + 1, call.end()))
InputOf(c) == IF c = <<>> THEN Input("", c) ELSE Input(c[1], Tail(c))

CallInit ==
    /\ LoopAtRest
    /\ ConfigIdle
    /\ ScanIdle
    /\ MapIdle
    /\ DispatchIdle
    /\ call \in Calls
    /\ commandCalls = <<>>
    /\ result = NoResult

\* XMainLoop::callCommand. Commands::call returns an exit code and writes to
\* the two channels what it likes.
callCommand ==
    /\ result = NoResult
    /\ \E exitCode \in ExitCodes, output \in Texts, error \in Texts :
          LET commandName == IF call = <<>> THEN "" ELSE call[1]
          IN  /\ commandCalls' = Append(commandCalls,
                                   [input |-> InputOf(call),
                                    channels |-> commandName,
                                    returned |-> exitCode,
                                    stdout |-> output,
                                    stderr |-> error])
              /\ result' = [exitCode |-> exitCode, output |-> output,
                            error |-> error]
    /\ UNCHANGED <<call, loopvars, configvars, scanvars, mapvars, dispatchvars>>

CallNext == callCommand

CallSpec == CallInit /\ [][CallNext]_vars

\* -------------------------------------------------------- configurerequest
\* the test without sizehints_floating_
InterpretsWithoutHints(c) == c.floated \/ c.pseudotile_

\* client->sizehints_floating_ &&
\*     (client->is_client_floated() || client->pseudotile_)
Interprets(c) == c.sizehints_floating_ /\ (c.floated \/ c.pseudotile_)

\* `changes` after the block that reads the request
Changes(c, old) ==
    /\ Interprets(c)
    /\ \/ CWWidth \in c.value_mask /\ old.width # c.width
       \/ CWHeight \in c.value_mask /\ old.height # c.height
       \/ CWX \in c.value_mask
       \/ CWY \in c.value_mask

\* newRect after the block that reads the request: x and y relative to the
\* monitor, the one that was not requested taken from last_size_
NewRect(c, old) ==
    LET positioned == CWX \in c.value_mask \/ CWY \in c.value_mask
        x == IF CWX \in c.value_mask THEN c.x ELSE c.last_size_.x
        y == IF CWY \in c.value_mask THEN c.y ELSE c.last_size_.y
    IN  IF ~Interprets(c) THEN old
        ELSE Rectangle(IF positioned THEN x - c.origin[1] ELSE old.x,
                       IF positioned THEN y - c.origin[2] ELSE old.y,
                       IF CWWidth \in c.value_mask THEN c.width ELSE old.width,
                       IF CWHeight \in c.value_mask THEN c.height ELSE old.height)

ConfigInit ==
    /\ LoopAtRest
    /\ CallIdle
    /\ ScanIdle
    /\ MapIdle
    /\ DispatchIdle
    /\ cre \in ConfigureRequests
    /\ float_size_ = cre.float_size_
    /\ sent = <<>>
    /\ handled = FALSE

\* XMainLoop::configurerequest
configurerequest ==
    /\ ~handled
    /\ handled' = TRUE
    /\ LET changes == Changes(cre, float_size_)
           newRect == NewRect(cre, float_size_)
       IN  IF cre.managed
           THEN IF changes /\ cre.floated
                THEN /\ float_size_' = newRect
                     /\ sent' = <<Call("resize_floating", NoEvent, <<cre.window, newRect>>)>>
                ELSE IF changes /\ cre.pseudotile_
                THEN /\ float_size_' = newRect
                     /\ sent' = IF cre.visible
                                THEN <<Call("applyLayout", NoEvent, <<cre.window>>)>>
                                ELSE <<>>
                ELSE /\ float_size_' = float_size_
                     /\ sent' = <<Call("send_configure", NoEvent, <<cre.window, TRUE>>)>>
           ELSE /\ float_size_' = float_size_
                /\ sent' = <<Call("XConfigureWindow", NoEvent,
                                  <<cre.window, cre.value_mask,
                                    Rectangle(cre.x, cre.y, cre.width, cre.height)>>)>>
    /\ UNCHANGED <<cre, loopvars, callvars, scanvars, mapvars, dispatchvars>>

ConfigNext == configurerequest

ConfigSpec == ConfigInit /\ [][ConfigNext]_vars

\* ------------------------------------------- scanExistingClients, in detail
\* the windows the scan can meet, in the order queryTree and
\* original_client_list_ list them
ScanOrder == <<W1, W2>>
ScanWindows == {ScanOrder[i] : i \in DOMAIN ScanOrder}

NetWmWindowTypeNormal == "NetWmWindowTypeNormal"
NetWmWindowTypeDesktop == "NetWmWindowTypeDesktop"
NetWmWindowTypeDock == "NetWmWindowTypeDock"

\* What the X server and EWMH say of a window: whether XGetWindowAttributes
\* succeeds, wa.override_redirect, isOwnWindow, getWindowType,
\* wa.map_state == IsViewable, whether queryTree(root) lists it and whether
\* original_client_list_ does.
WindowState(extant, override_redirect, own, type, viewable, inTree, original) ==
    [extant |-> extant, override_redirect |-> override_redirect, own |-> own,
     type |-> type, viewable |-> viewable, inTree |-> inTree,
     original |-> original]

\* a window is listed by queryTree or by original_client_list_; one that is
\* gone has no attributes, and the type of a window of the manager's own is
\* never read
WindowStates ==
    {WindowState(FALSE, FALSE, FALSE, NetWmWindowTypeNormal, FALSE, t, o) :
        t \in BOOLEAN, o \in BOOLEAN}
    \cup {WindowState(TRUE, r, FALSE, ty, v, t, o) :
            r \in BOOLEAN, v \in BOOLEAN, t \in BOOLEAN, o \in BOOLEAN,
            ty \in {NetWmWindowTypeNormal, NetWmWindowTypeDesktop,
                    NetWmWindowTypeDock}}
    \cup {WindowState(TRUE, r, TRUE, NetWmWindowTypeNormal, v, t, o) :
            r \in BOOLEAN, v \in BOOLEAN, t \in BOOLEAN, o \in BOOLEAN}

Worlds == {w \in [ScanWindows -> WindowStates] :
              \A win \in ScanWindows : w[win].inTree \/ w[win].original}

\* X_.queryTree(X_.root()) and initialEwmhState.original_client_list_
queryTree == SelectSeq(ScanOrder, LAMBDA win : world[win].inTree)
originalClients == SelectSeq(ScanOrder, LAMBDA win : world[win].original)
isInOriginalClients(win) == world[win].original

\* ewmh_.windowGetInitialDesktop(win), and the name of tags->byIdx(idx): there
\* is one tag
windowGetInitialDesktop(win) == IF win = W1 THEN 0 ELSE IF win = W2 THEN 3 ELSE -1
TagName(idx) == IF idx = 0 THEN "tag0" ELSE None

\* findTagForWindow(win): the tag name the rule override sets, or None
findTagForWindow(win) ==
    IF ~importTagsFromEwmh THEN None
    ELSE IF windowGetInitialDesktop(win) < 0 THEN None
    ELSE TagName(windowGetInitialDesktop(win))

\* a call of the scan: c is what manage_client returned
ScanCall(op, win, c) == [op |-> op, win |-> win, tag_name |-> None, c |-> c]
ManageCall(win, c) ==
    [op |-> "manage_client", win |-> win, tag_name |-> findTagForWindow(win),
     c |-> c]

\* the second pass leaving out the windows that are not viewable as well
SecondPassSkipsUnviewable(win) ==
    \/ win \in managedClients
    \/ ~world[win].extant
    \/ world[win].override_redirect
    \/ ~world[win].viewable

\* the windows the second pass leaves alone: those with a client, those
\* without attributes and those with override_redirect
SecondPassSkips(win) ==
    \/ win \in managedClients
    \/ ~world[win].extant
    \/ world[win].override_redirect

ScanInit ==
    /\ LoopAtRest
    /\ CallIdle
    /\ ConfigIdle
    /\ MapIdle
    /\ DispatchIdle
    /\ world \in Worlds
    /\ importTagsFromEwmh \in BOOLEAN
    /\ spc = "first"
    /\ todo = queryTree
    /\ managedClients = {}
    /\ panels = {}
    /\ desktops = {}
    /\ scanCalls = <<>>

\* one turn of the loop over queryTree(root). manage_client yields a client
\* or none, and c->tag() is read of what it yielded; on none that is
\* undefined: the scan ends there, or goes on with the window mapped or not.
scanFirstPass ==
    /\ spc = "first"
    /\ todo # <<>>
    /\ todo' = Tail(todo)
    /\ LET win == Head(todo)
           wa == world[win]
       IN  IF ~wa.extant \/ wa.override_redirect
           THEN UNCHANGED <<spc, managedClients, panels, desktops, scanCalls>>
           ELSE IF wa.own
           THEN UNCHANGED <<spc, managedClients, panels, desktops, scanCalls>>
           ELSE IF wa.type = NetWmWindowTypeDesktop
           THEN /\ desktops' = desktops \cup {win}
                /\ scanCalls' = scanCalls \o
                       <<ScanCall("registerDesktop", win, None),
                         ScanCall("restack", None, None),
                         ScanCall("XMapWindow", win, None)>>
                /\ UNCHANGED <<spc, managedClients, panels>>
           ELSE IF wa.type = NetWmWindowTypeDock
           THEN /\ panels' = panels \cup {win}
                /\ scanCalls' = scanCalls \o
                       <<ScanCall("registerPanel", win, None),
                         ScanCall("XSelectInput", win, None),
                         ScanCall("XMapWindow", win, None)>>
                /\ UNCHANGED <<spc, managedClients, desktops>>
           ELSE IF wa.viewable \/ isInOriginalClients(win)
           THEN /\ \E yields \in BOOLEAN, shown \in BOOLEAN, ends \in BOOLEAN :
                      /\ managedClients' = IF yields
                                           THEN managedClients \cup {win}
                                           ELSE managedClients
                      /\ spc' = IF ~yields /\ ends THEN "crashed" ELSE spc
                      /\ scanCalls' = scanCalls \o
                             <<ManageCall(win, IF yields THEN win ELSE None),
                               ScanCall("tag", win, IF yields THEN win ELSE None)>> \o
                             (IF shown /\ ~(~yields /\ ends)
                              THEN <<ScanCall("XMapWindow", win, None)>>
                              ELSE <<>>)
                /\ UNCHANGED <<panels, desktops>>
           ELSE UNCHANGED <<spc, managedClients, panels, desktops, scanCalls>>
    /\ UNCHANGED <<world, importTagsFromEwmh, loopvars, callvars, configvars,
                   mapvars, dispatchvars>>

\* the end of the first loop
scanFirstPassDone ==
    /\ spc = "first"
    /\ todo = <<>>
    /\ spc' = "second"
    /\ todo' = originalClients
    /\ UNCHANGED <<world, importTagsFromEwmh, managedClients, panels, desktops,
                   scanCalls, loopvars, callvars, configvars, mapvars,
                   dispatchvars>>

\* one turn of the loop over originalClients
scanSecondPass ==
    /\ spc = "second"
    /\ todo # <<>>
    /\ todo' = Tail(todo)
    /\ LET win == Head(todo)
       IN  IF SecondPassSkips(win)
           THEN UNCHANGED <<managedClients, scanCalls>>
           ELSE \E yields \in BOOLEAN :
                   /\ managedClients' = IF yields
                                        THEN managedClients \cup {win}
                                        ELSE managedClients
                   /\ scanCalls' = scanCalls \o
                          <<ScanCall("XReparentWindow", win, None),
                            ManageCall(win, IF yields THEN win ELSE None)>>
    /\ UNCHANGED <<spc, world, importTagsFromEwmh, panels, desktops, loopvars,
                   callvars, configvars, mapvars,
                   dispatchvars>>

\* root_->monitors->restack(), and the return
scanRestack ==
    /\ spc = "second"
    /\ todo = <<>>
    /\ spc' = "done"
    /\ scanCalls' = Append(scanCalls, ScanCall("restack", None, None))
    /\ UNCHANGED <<world, importTagsFromEwmh, todo, managedClients, panels,
                   desktops, loopvars, callvars, configvars, mapvars,
                   dispatchvars>>

ScanNext ==
    \/ scanFirstPass
    \/ scanFirstPassDone
    \/ scanSecondPass
    \/ scanRestack

ScanSpec == ScanInit /\ [][ScanNext]_vars

\* ------------------------------------------------------------- maprequest
\* A MapRequest and what the collaborators say of its window: isOwnWindow,
\* is_herbstluft_window, whether XGetWindowAttributes succeeds, whether
\* clients()->client(window) is a client, that client's minimized_, and
\* getWindowType.
MapRequests ==
    {[window |-> w, own |-> o, herbstluft |-> h, extant |-> x,
      managed |-> m, minimized_ |-> z, type |-> ty] :
        w \in {W1, W2}, o \in BOOLEAN, h \in BOOLEAN, x \in BOOLEAN, m \in BOOLEAN,
        z \in BOOLEAN,
        ty \in {NetWmWindowTypeNormal, NetWmWindowTypeDesktop,
                NetWmWindowTypeDock}}

\* maprequest mapping the window whatever manage_client and
\* find_monitor_with_tag say
MapsNewClientAlways(client, shown) == TRUE

\* maprequest: client && find_monitor_with_tag(client->tag())
MapsNewClient(client, shown) == client # None /\ shown

MapInit ==
    /\ LoopAtRest
    /\ CallIdle
    /\ ConfigIdle
    /\ ScanIdle
    /\ DispatchIdle
    /\ mapreq \in {r \in MapRequests : r.minimized_ => r.managed}
    /\ minimized_ = mapreq.minimized_
    /\ mapSent = <<>>
    /\ mapDone = FALSE

\* XMainLoop::maprequest. manage_client yields a client or none, and
\* find_monitor_with_tag finds a monitor that shows the client's tag or none.
maprequest ==
    /\ ~mapDone
    /\ mapDone' = TRUE
    /\ LET window == mapreq.window
           map == Call("XMapWindow", NoEvent, <<window>>)
       IN  IF mapreq.own \/ mapreq.herbstluft
           THEN /\ mapSent' = IF mapreq.extant THEN <<map>> ELSE <<>>
                /\ UNCHANGED minimized_
           ELSE IF mapreq.managed
           THEN /\ minimized_' = FALSE
                /\ UNCHANGED mapSent
           ELSE IF mapreq.type = NetWmWindowTypeDesktop
           THEN /\ mapSent' = <<Call("registerDesktop", NoEvent, <<window>>),
                                Call("restack", NoEvent, <<>>), map>>
                /\ UNCHANGED minimized_
           ELSE IF mapreq.type = NetWmWindowTypeDock
           THEN /\ mapSent' = <<Call("registerPanel", NoEvent, <<window>>),
                                Call("XSelectInput", NoEvent, <<window>>), map>>
                /\ UNCHANGED minimized_
           ELSE /\ \E yields \in BOOLEAN, shown \in BOOLEAN :
                      LET client == IF yields THEN window ELSE None
                      IN  mapSent' =
                              <<Call("manage_client", NoEvent, <<window, client>>)>> \o
                              (IF client # None
                               THEN <<Call("find_monitor_with_tag", NoEvent,
                                           <<client, shown>>)>>
                               ELSE <<>>) \o
                              (IF MapsNewClient(client, shown) THEN <<map>> ELSE <<>>)
                /\ UNCHANGED minimized_
    /\ UNCHANGED <<mapreq, loopvars, callvars, configvars, scanvars, dispatchvars>>

MapNext == maprequest

MapSpec == MapInit /\ [][MapNext]_vars

\* ------------------------------------------------- run(): the table lookup
\* the type codes XNextEvent can return: the core events below LASTEvent and
\* the events of the extensions above
EventTypes == 0..127

\* what a read of handlerTable_ can yield: nullptr, one of the handlers, or
\* a value that is neither
HandlerValues == {handlerTable_[t] : t \in DOMAIN handlerTable_} \cup {"wild"}

\* the index is inside EventHandler handlerTable_[LASTEvent]
InTable(t) == t \in DOMAIN handlerTable_

DispatchInit ==
    /\ LoopAtRest
    /\ CallIdle
    /\ ConfigIdle
    /\ ScanIdle
    /\ MapIdle
    /\ delivered \in {[NoEvent EXCEPT !.type = t] : t \in EventTypes}
    /\ handler = "unread"
    /\ outside = FALSE

\* EventHandler handler = handlerTable_[event.type]: no test of event.type
\* precedes the read; a read past the end of the array is undefined and
\* yields whatever the build finds there
Lookup ==
    /\ handler = "unread"
    /\ IF InTable(delivered.type)
       THEN /\ handler' = HandlerFor(delivered)
            /\ outside' = FALSE
       ELSE /\ handler' \in HandlerValues
            /\ outside' = TRUE
    /\ UNCHANGED <<delivered, loopvars, callvars, configvars, scanvars, mapvars>>

DispatchNext == Lookup

DispatchSpec == DispatchInit /\ [][DispatchNext]_vars

\* ------------------------------------------------------------ the claims
\* the events generated and not taken yet, oldest first
InFlight == queue \o wire
InFlightAfter == queue' \o wire'
\* the events of the connection that the step read into the local queue
ReadByStep == SubSeq(wire, 1, Len(wire) - Len(wire'))
\* a step of run() that is not the arrival of an event
Takes == Len(InFlightAfter) <= Len(InFlight)
\* the step is the run of handler h
Runs(h) == pc = "handle" /\ pc' # pc /\ handlerTable_[event.type] = h
HandlerNames == {handlerTable_[t] : t \in 0..(LASTEvent - 1)} \ {"nullptr"}
CallsOf(t, ops) == SelectSeq(t, LAMBDA c : c.op \in ops)

\* C1: once QuitFlag is set, no handler is invoked for a further event: run()
\* never stands before the call of a handler with aboutToQuit_ set.
C1_NoDispatchAfterQuit ==
    (pc = "handle" /\ handlerTable_[event.type] # "nullptr") => ~aboutToQuit_

\* C2: if QuitFlag becomes true during the reaping before the wait, run()
\* exits without entering the blocking wait: it never blocks in select() with
\* aboutToQuit_ set.
C2_NoWaitAfterQuit == pc = "wait" => ~aboutToQuit_

\* C3: whenever the dispatcher enters the blocking wait, the local event
\* queue is empty.
C3_QueueEmptyWhenWaiting == pc = "wait" => queue = <<>>

\* C4: every child that has exited has been reaped before the dispatcher
\* blocks in the wait: it blocks with an exited child not waited for only if
\* that exit interrupts the wait.
C4_ReapedBeforeBlocking == (pc = "wait" /\ ~intr) => zombies = <<>>

\* C7: an event read in the drain loop whose type has a handler registered
\* invokes exactly that handler, once, with that event, and no other handler;
\* an event whose type has none invokes no handler and the loop goes on.
C7_DispatchByTable ==
    [][(pc = "handle" /\ pc' # pc) =>
          LET h == handlerTable_[event.type]
              invoked == CallsOf(trace', HandlerNames)
          IN  IF h = "nullptr"
              THEN invoked = <<>> /\ pc' = "watch"
              ELSE invoked = <<Call(h, event, <<>>)>>]_vars

C7_Witness ==
    /\ pc = "watch"
    /\ trace # <<>>
    /\ trace[1] = Call("focusin", Focus(FocusIn, W2, NotifyAncestor), <<>>)

\* C10: SelectionClear sets QuitFlag if and only if the selection is the
\* window manager's and the window is the manager's owning window, it leaves
\* QuitFlag unchanged otherwise, and nothing resets QuitFlag to false.
C10_SelectionClearQuits ==
    [][/\ aboutToQuit_ => aboutToQuit_'
       /\ Runs("selectionclear") =>
            aboutToQuit_' = (aboutToQuit_ \/ (/\ event.selection = WmSelection
                                              /\ event.window = WmWindow))]_vars

C10_Witness ==
    /\ pc = "watch"
    /\ trace = <<Call("selectionclear", SelClear(WmSelection, WmWindow), <<>>)>>
    /\ aboutToQuit_

\* the newest event of q that the mask selects, ev if there is none
LastSelected(ev, q, mask) ==
    LET s == Selected(q, mask) IN IF s = <<>> THEN ev ELSE Last(s)
\* the length of the run of selected events q starts with
RunLength(q, mask) ==
    CHOOSE n \in 0..Len(q) :
        /\ \A i \in 1..n : Matches(mask, q[i])
        /\ n < Len(q) => ~Matches(mask, q[n + 1])
\* a is b with its first events removed
IsSuffix(a, b) ==
    /\ Len(a) <= Len(b)
    /\ a = SubSeq(b, Len(b) - Len(a) + 1, Len(b))
\* a is b with some events removed, the others in their order
RECURSIVE IsSubsequence(_, _)
IsSubsequence(a, b) ==
    IF a = <<>> THEN TRUE
    ELSE IF b = <<>> THEN FALSE
    ELSE IF Head(a) = Head(b) /\ IsSubsequence(Tail(a), Tail(b)) THEN TRUE
    ELSE IsSubsequence(a, Tail(b))
Coalesced == ButtonMotionMask \cup FocusChangeMask \cup EnterWindowMask
MotionCall(e) == Call("handle_motion_event", NoEvent, <<e.x_root, e.y_root>>)
Taken(t) == CallsOf(t, {"XCheckMaskEvent"})

\* C5 as stated: the events are removed strictly in server order, each step
\* that removes events removes the oldest ones.
C5_StrictServerOrder ==
    [][Takes => IsSuffix(InFlightAfter, InFlight)]_vars

\* C5: run() takes the oldest event of the queue for dispatch, every step
\* leaves the remaining events in their order, and only MotionNotify,
\* FocusIn/FocusOut and EnterNotify events are removed from behind older
\* events: the events of every other type are neither overtaken by one of
\* their kind nor removed other than as the oldest event.
C5_ServerOrderButCoalesced ==
    [][Takes =>
          IF pc = "drain" /\ pc' # pc
          THEN IF queue = <<>>
               THEN InFlightAfter = InFlight
               ELSE event' = Head(InFlight) /\ InFlightAfter = Tail(InFlight)
          ELSE /\ IsSubsequence(InFlightAfter, InFlight)
               /\ Unselected(InFlightAfter, Coalesced) =
                      Unselected(InFlight, Coalesced)]_vars

C5_Witness ==
    /\ pc = "watch"
    /\ trace # <<>>
    /\ trace[1].op = "unmapnotify"
    /\ \E i \in 1..Len(trace) :
          trace[i].op = "XCheckMaskEvent" /\ trace[i].arg[1] > 0
    /\ Unselected(queue, EnterWindowMask) # <<>>

\* C6 as stated: an event that is removed other than by run() taking it for
\* its handler is an EnterNotify event.
C6_HandledOrEnterDropped ==
    [][(Takes /\ ~(pc = "drain" /\ pc' # pc)) =>
          Unselected(InFlightAfter, EnterWindowMask) =
              Unselected(InFlight, EnterWindowMask)]_vars

\* C6: an event leaves the queue in one of these ways only: run() takes the
\* oldest event to dispatch it; motionnotify takes MotionNotify events;
\* focusin takes FocusIn and FocusOut events; a drain of the EnterFilter
\* (in any step) takes EnterNotify events. Every event a handler takes is
\* one XCheckMaskEvent took.
C6_RemovedByKind ==
    [][Takes =>
          IF pc = "drain" /\ pc' # pc
          THEN queue # <<>> =>
                  /\ pc' = "handle"
                  /\ event' = XNextEvent(queue)
                  /\ InFlightAfter = Tail(InFlight)
          ELSE LET mask == IF Runs("motionnotify") THEN ButtonMotionMask
                           ELSE IF Runs("focusin")
                                THEN FocusChangeMask \cup EnterWindowMask
                                ELSE EnterWindowMask
               IN  /\ Unselected(InFlightAfter, mask) = Unselected(InFlight, mask)
                   /\ IF pc \in {"handle", "enternotify"} /\ pc' # pc
                      THEN Len(InFlight) - Len(InFlightAfter) =
                              Len(Taken(trace')) - Len(Taken(trace))
                      ELSE InFlightAfter = InFlight]_vars

C6_Witness ==
    /\ pc = "watch"
    /\ trace # <<>>
    /\ trace[1].op = "focusin"
    /\ \E i \in 1..Len(trace) :
          /\ trace[i].op = "XCheckMaskEvent"
          /\ trace[i].ev.type = FocusOut
          /\ i < Len(trace)

\* C8 as stated: handling m1 calls handle_motion_event once, with the root
\* coordinates of the last event of the run of motion events that follows
\* m1 back-to-back.
C8_NewestOfRun ==
    [][Runs("motionnotify") =>
          LET avail == queue \o ReadByStep
              run == SubSeq(avail, 1, RunLength(avail, ButtonMotionMask))
              mn == IF run = <<>> THEN event ELSE Last(run)
          IN  CallsOf(trace', {"handle_motion_event"}) = <<MotionCall(mn)>>]_vars

\* C8: handling m1 calls handle_motion_event exactly once, with the root
\* coordinates of the newest MotionNotify event of the queue, whatever
\* events lie between it and m1, and no MotionNotify event is left in the
\* local queue.
C8_NewestOfQueue ==
    [][Runs("motionnotify") =>
          LET avail == queue \o ReadByStep
              newest == LastSelected(event, avail, ButtonMotionMask)
          IN  /\ CallsOf(trace', {"handle_motion_event"}) = <<MotionCall(newest)>>
              /\ Selected(queue', ButtonMotionMask) = <<>>
              /\ queue' = Unselected(avail, ButtonMotionMask)]_vars

C8_Witness ==
    /\ pc = "watch"
    /\ trace # <<>>
    /\ trace[1].op = "motionnotify"
    /\ Len(Taken(trace)) = 2
    /\ Taken(trace)[2].arg[1] > 0
    /\ Last(trace) = MotionCall(Taken(trace)[2].ev)
    /\ Last(trace) # MotionCall(Taken(trace)[1].ev)

\* C9: handling f1 with f1..fn the queued focus-change events calls
\* focus_client at most once; when it does, fn is a FocusIn of detail
\* NotifyNonlinear or NotifyNonlinearVirtual, its window is not the window of
\* the focused client, the call is for the client managed for fn's window,
\* and that client has the focus afterwards; without a call, and for a
\* window that is not managed, the focus is as before.
C9_OneFocusReassertion ==
    [][Runs("focusin") =>
          LET calls == CallsOf(trace', {"focus_client"})
          IN  /\ Len(calls) <= 1
              /\ \E k \in 0..Len(wire) :
                    LET fn == LastSelected(event, queue \o SubSeq(wire, 1, k),
                                           FocusChangeMask)
                    IN  /\ Selected(InFlightAfter, FocusChangeMask) =
                              Selected(SubSeq(wire, k + 1, Len(wire)),
                                       FocusChangeMask)
                        /\ IF calls = <<>>
                           THEN focus' = focus
                           ELSE /\ fn.type = FocusIn
                                /\ fn.detail \in {NotifyNonlinear,
                                                  NotifyNonlinearVirtual}
                                /\ fn.window # focus
                                /\ calls[1].arg = <<ClientOf(fn.window)>>
                                /\ focus' = IF fn.window \in clients
                                            THEN fn.window ELSE focus]_vars

C9_Witness ==
    /\ pc = "watch"
    /\ trace # <<>>
    /\ trace[1].op = "focusin"
    /\ Taken(trace) # <<>>
    /\ Last(Taken(trace)).ev = Focus(FocusIn, W2, NotifyNonlinear)
    /\ CallsOf(trace, {"focus_client"}) = <<Call("focus_client", NoEvent, <<W2>>)>>
    /\ focus = W2

\* the step is the run of a handler, or of the rest of enternotify
HandlerStep == pc \in {"handle", "enternotify"} /\ pc' # pc
\* the calls that follow call i of t, up to the next call that is neither
\* XSync nor XCheckMaskEvent
RECURSIVE XCallsFrom(_, _)
XCallsFrom(t, i) ==
    IF i > Len(t) \/ t[i].op \notin {"XSync", "XCheckMaskEvent"}
    THEN <<>>
    ELSE <<t[i]>> \o XCallsFrom(t, i + 1)
FilterCalls(t) == {i \in 1..Len(t) : t[i].op = "dropEnterNotifyEvents"}

\* C11: a call of dropEnterNotifyEvents while duringEnterNotify_ is true
\* neither syncs nor removes an event; while it is false the call syncs and
\* then takes EnterNotify events only, and afterwards no EnterNotify event
\* and every event of another type is in the local queue.
C11_EnterFilterGuarded ==
    [][HandlerStep =>
          \A i \in FilterCalls(trace') :
             LET x == XCallsFrom(trace', i + 1)
             IN  IF duringEnterNotify_
                 THEN /\ x = <<>>
                      /\ queue' = queue
                      /\ wire' = wire
                 ELSE /\ x # <<>>
                      /\ x[1].op = "XSync"
                      /\ \A j \in 2..Len(x) :
                            /\ x[j].op = "XCheckMaskEvent"
                            /\ x[j].ev.type = EnterNotify
                      /\ wire' = <<>>
                      /\ Selected(queue', EnterWindowMask) = <<>>
                      /\ Unselected(queue', FocusChangeMask) =
                            Unselected(Unselected(InFlight, EnterWindowMask),
                                       FocusChangeMask)]_vars

C11_Witness ==
    /\ pc = "watch"
    /\ trace # <<>>
    /\ trace[1].op = "enternotify"
    /\ FilterCalls(trace) # {}
    /\ Selected(queue, EnterWindowMask) # <<>>

\* C12: duringEnterNotify_ is true only while enternotify is executing:
\* wherever else the loop is, it is false.
C12_GuardOnlyInEnterNotify == duringEnterNotify_ => pc = "enternotify"

C12_Witness ==
    /\ pc = "watch"
    /\ trace # <<>>
    /\ trace[1].op = "enternotify"
    /\ trace[1].ev.mode = NotifyGrab
    /\ ~duringEnterNotify_

\* C13: in every iteration of run() collectZombies() has run to its end
\* before select() is entered, it runs again as the first thing after
\* select() has returned, whatever made it return, and aboutToQuit_ is tested
\* and events are read only after that second run has ended.
C13_ReapBarrier ==
    [][/\ (pc' = "reap1" /\ pc # "reap1") => pc = "loop"
       /\ (pc' = "select" /\ pc # "select") => (pc = "reap1" /\ zombies = <<>>)
       /\ (pc' = "wait" /\ pc # "wait") => pc = "select"
       /\ (pc = "wait" /\ pc' # "wait") => pc' = "reap2"
       /\ (pc = "reap2" /\ pc' # "reap2") => (pc' = "check" /\ zombies = <<>>)
       /\ (pc' = "check" /\ pc # "check") => pc = "reap2"
       /\ (pc' = "drain" /\ pc \notin {"drain", "watch"}) => pc = "check"
       /\ (pc \in {"select", "wait", "reap2"}) =>
             (aboutToQuit_' = aboutToQuit_ \/ pc = "reap2") /\ event' = event]_vars

C13_Witness ==
    /\ pc = "check"
    /\ emitted # {}
    /\ queue = <<>>
    /\ wire = <<>>

\* C14: in a drain scanForChanges() runs after every handler and before the
\* next event is read: between two events read by XNextEvent, and between a
\* handler and the end of the drain, the loop passes the watchers.
C14_WatchersAfterEveryHandler ==
    [][/\ (pc \in {"handle", "enternotify"} /\ pc' # pc) =>
             pc' \in {"watch", "enternotify"}
       /\ (pc = "watch" /\ pc' # pc) => pc' = "drain"
       /\ (pc' = "handle" /\ pc # "handle") => pc = "drain"
       /\ (pc' = "drain" /\ pc # "drain") => pc \in {"check", "watch"}
       /\ (pc' = "enternotify" /\ pc # pc') => pc = "handle"
       /\ (event' # event) => pc \in {"drain", "handle", "watch"}]_vars

C14_Witness ==
    /\ pc = "drain"
    /\ queue # <<>>
    /\ aboutToQuit_

\* C15: callCommand calls Commands::call exactly once, with the first word of
\* the call as the command name and the other words, in order, as the
\* arguments (an empty name and no arguments for the empty call), and returns
\* its exit code, what it wrote to the output channel and what it wrote to the
\* error channel.
C15_CallCommand ==
    result # NoResult =>
        /\ Len(commandCalls) = 1
        /\ IF call = <<>>
           THEN commandCalls[1].input = Input("", <<>>)
           ELSE <<commandCalls[1].input.command>> \o commandCalls[1].input.args = call
        /\ result.exitCode = commandCalls[1].returned
        /\ result.output = commandCalls[1].stdout
        /\ result.error = commandCalls[1].stderr

C15_Witness ==
    /\ result # NoResult
    /\ call = <<"a", "b", "">>
    /\ result.output = "x"
    /\ result.error = "y"

Positions(t, op) == {i \in 1..Len(t) : t[i].op = op}
\* the calls x are a sync followed by XCheckMaskEvent taking EnterNotify
\* events only
SyncThenEnterDrain(x) ==
    /\ x # <<>>
    /\ x[1].op = "XSync"
    /\ \A j \in 2..Len(x) :
          x[j].op = "XCheckMaskEvent" /\ x[j].ev.type = EnterNotify

\* C16: draggedClientChanges without a client calls XUngrabPointer, then
\* XSync, then takes EnterNotify events until none is left, and leaves the
\* other events in their order; with a client it calls XGrabPointer for the
\* window of that client and neither syncs nor takes an event.
C16_DragCoordinator ==
    [][HandlerStep =>
          /\ \A i \in Positions(trace', "XUngrabPointer") :
                /\ SyncThenEnterDrain(XCallsFrom(trace', i + 1))
                /\ wire' = <<>>
                /\ queue' = Unselected(InFlight, EnterWindowMask)
          /\ \A i \in Positions(trace', "XGrabPointer") :
                /\ trace'[i].arg = <<dragged'>>
                /\ dragged' \in clients
                /\ XCallsFrom(trace', i + 1) = <<>>]_vars

C16_Witness ==
    /\ pc = "watch"
    /\ trace # <<>>
    /\ trace[1].op = "buttonrelease"
    /\ Positions(trace, "XUngrabPointer") # {}
    /\ \E i \in Positions(trace, "XCheckMaskEvent") : trace[i].arg[1] > 0
    /\ queue # <<>>

\* C17: unmapnotify calls unmap_notify(window) exactly when the event's
\* window is its reporting window, XUnmapWindow(window) exactly when
\* send_event is set, and always ends with XSync and the removal of every
\* EnterNotify event; unmap_notify comes before XUnmapWindow and both before
\* that last sync.
C17_UnmapOrder ==
    [][Runs("unmapnotify") =>
          LET notifies == Positions(trace', "unmap_notify")
              unmaps == Positions(trace', "XUnmapWindow")
              syncs == Positions(trace', "XSync")
              last == CHOOSE i \in syncs : \A j \in syncs : j <= i
          IN  /\ CallsOf(trace', {"unmap_notify"}) =
                    IF event.window = event.event
                    THEN <<Call("unmap_notify", NoEvent, <<event.window>>)>>
                    ELSE <<>>
              /\ CallsOf(trace', {"XUnmapWindow"}) =
                    IF event.send_event
                    THEN <<Call("XUnmapWindow", NoEvent, <<event.window>>)>>
                    ELSE <<>>
              /\ syncs # {}
              /\ SyncThenEnterDrain(XCallsFrom(trace', last))
              /\ XCallsFrom(trace', last) = SubSeq(trace', last, Len(trace'))
              /\ \A i \in notifies, j \in unmaps : i < j
              /\ \A i \in notifies \cup unmaps : i < last
              /\ wire' = <<>>
              /\ queue' = Unselected(InFlight, EnterWindowMask)]_vars

C17_Witness ==
    /\ pc = "watch"
    /\ trace # <<>>
    /\ trace[1] = Call("unmapnotify", Unmap(W1, W1, TRUE), <<>>)
    /\ Positions(trace, "unmap_notify") # {}
    /\ Positions(trace, "XUnmapWindow") # {}
    /\ Positions(trace, "XCheckMaskEvent") # {}

\* C18: a ConfigureRequest for a managed client that does not both honour
\* size hints while floating and float or pseudotile leaves float_size_ as it
\* was, whatever the value mask, and makes one call, send_configure(true);
\* for a managed client XConfigureWindow is never called.
C18_UninterpretedRequest ==
    (handled /\ cre.managed) =>
        /\ CallsOf(sent, {"XConfigureWindow"}) = <<>>
        /\ ~(cre.sizehints_floating_ /\ (cre.floated \/ cre.pseudotile_)) =>
              /\ float_size_ = cre.float_size_
              /\ sent = <<Call("send_configure", NoEvent, <<cre.window, TRUE>>)>>

C18_Witness ==
    /\ handled
    /\ cre.managed
    /\ ~cre.sizehints_floating_
    /\ cre.floated
    /\ cre.value_mask = {CWX, CWY, CWWidth, CWHeight}
    /\ cre.width # cre.float_size_.width
    /\ sent = <<Call("send_configure", NoEvent, <<cre.window, TRUE>>)>>

\* ------------------------------------------------------------------- C19
\* the client an EnterNotify on window w is about: the client with that
\* window, or else the client with that decoration
EnteredClient(w) ==
    IF ClientOf(w) # None THEN ClientOf(w) ELSE DecorationToClient(w)

\* C19: when an EnterNotify that enternotify does not ignore (mode Normal,
\* detail not Inferior), with focus false, no drag in progress and
\* focus_follows_mouse on, is for the window or the decoration of a client B
\* of a tag that is not floating, whose leaf has the max layout and selects a
\* client A other than B, the handler changes neither the focused client nor
\* the focused frame, and calls neither focus_client nor focusFrame.
C19_NoFocusChangeUnderMax ==
    [][(/\ pc = "enternotify"
        /\ pc' # pc
        /\ dragged = None
        /\ env.focus_follows_mouse
        /\ event.focus = FALSE
        /\ EnteredClient(event.window) # None
        /\ env.floating = FALSE
        /\ env.max
        /\ LeafFocusedClient \in clients
        /\ LeafFocusedClient # EnteredClient(event.window))
       => /\ focus' = focus
          /\ frameFocus' = frameFocus
          /\ CallsOf(trace', {"focus_client", "focusFrame"}) = <<>>]_vars

C19_Witness ==
    /\ pc = "watch"
    /\ env.max
    /\ env.floating = FALSE
    /\ dragged = None
    /\ Len(trace) = 2
    /\ trace[1] = Call("enternotify",
                       Crossing(D2, NotifyNormal, NotifyNonlinear, FALSE), <<>>)
    /\ trace[2].op = "updateResizeAreaCursors"
    /\ focus = W1
    /\ frameFocus = ClientLeaf

\* ------------------------------------------------------------------- C20
\* the windows of the previous _NET_CLIENT_LIST that still exist
ExtantOriginals == {win \in ScanWindows : world[win].original /\ world[win].extant}
\* the places of the scan's calls of manage_client for win
ManagePlaces(win) ==
    {i \in DOMAIN scanCalls :
        scanCalls[i].op = "manage_client" /\ scanCalls[i].win = win}
\* the windows the first pass made clients of: manage_client yielded a client
\* and was not called right after XReparentWindow
ManagedByFirstPass ==
    {win \in ScanWindows :
        \E i \in ManagePlaces(win) :
            /\ scanCalls[i].c = win
            /\ (i = 1 \/ scanCalls[i - 1].op # "XReparentWindow")}
\* win was reparented, and manage_client called for it next
ReparentedThenManaged(win) ==
    \E i \in ManagePlaces(win) :
        /\ i > 1
        /\ scanCalls[i - 1] = ScanCall("XReparentWindow", win, None)
\* the scan's last call is monitors->restack(), after every manage_client
RestackLast ==
    /\ scanCalls # <<>>
    /\ Last(scanCalls).op = "restack"
    /\ \A win \in ScanWindows : \A i \in ManagePlaces(win) : i < Len(scanCalls)

Consumed(t) ==
    \E i \in DOMAIN t : t[i].op = "mouse_handle_event" /\ t[i].arg[3]
ClientCalls(t) ==
    CallsOf(t, {"focus_client", "mouse_initiate_move", "mouse_initiate_resize"})

\* C21 as stated: when the mouse manager consumed the ButtonPress, the handler
\* focuses no client, focuses no frame and initiates no move or resize.
C21_ConsumedStops ==
    [][(Runs("buttonpress") /\ Consumed(trace'))
       => /\ ClientCalls(trace') = <<>>
          /\ CallsOf(trace', {"focusFrame"}) = <<>>
          /\ focus' = focus
          /\ frameFocus' = frameFocus
          /\ dragged' = dragged]_vars

\* C21, amended: when the mouse manager consumed the ButtonPress, the handler
\* focuses no client and initiates no move or resize, so that focus_client,
\* mouse_initiate_move and mouse_initiate_resize are called only for a press
\* that was not consumed; a press on a frame decoration focuses its frame
\* whether it was consumed or not, and XAllowEvents is the last call in
\* either case.
C21_ConsumedSparesClient ==
    [][Runs("buttonpress")
       => /\ Consumed(trace')
                => /\ ClientCalls(trace') = <<>>
                   /\ focus' = focus
                   /\ dragged' = dragged
          /\ IF FrameOfDecoration(event.window) # None
             THEN /\ Len(CallsOf(trace', {"focusFrame"})) = 1
                  /\ frameFocus' = FrameOfDecoration(event.window)
             ELSE /\ CallsOf(trace', {"focusFrame"}) = <<>>
                  /\ Consumed(trace') => frameFocus' = frameFocus
          /\ Last(trace').op = "XAllowEvents"]_vars

\* a consumed press on the decoration of W2 while W1 is focused
C21_Witness ==
    /\ pc = "watch"
    /\ Len(trace) = 3
    /\ trace[1] = Call("buttonpress", Button(ButtonPress, D2, Button1), <<>>)
    /\ trace[2] = Call("mouse_handle_event", NoEvent, <<Button1, D2, TRUE>>)
    /\ trace[3].op = "XAllowEvents"
    /\ focus = W1
    /\ dragged = None

\* ------------------------------------------------------------------- C22
\* a step of the EnterNotify handler
EnterNotifyStep ==
    /\ pc' # pc
    /\ \/ Runs("enternotify")
       \/ pc = "enternotify"
\* the event is one the handler may follow: mode Normal, detail not Inferior,
\* no drag in progress, focus_follows_mouse on, focus field false
MayFollow ==
    /\ event.mode = NotifyNormal
    /\ event.detail # NotifyInferior
    /\ dragged = None
    /\ env.focus_follows_mouse
    /\ event.focus = FALSE

\* C22: the EnterNotify handler changes the focused client or the focused
\* frame, and calls focus_client or focusFrame, only if the event's mode is
\* Normal, its detail is not Inferior, no drag is in progress,
\* focus_follows_mouse is on and the event's focus field is false; if any of
\* these fails, the focused client and the focused frame are unchanged by
\* the handler.
C22_FocusOnlyWhenFollowing ==
    [][(EnterNotifyStep /\ ~MayFollow)
       => /\ focus' = focus
          /\ frameFocus' = frameFocus
          /\ CallsOf(trace', {"focus_client", "focusFrame"}) = <<>>]_vars

\* with focus_follows_mouse off, the pointer has entered W2 and W1 is
\* focused still
C22_Witness ==
    /\ pc = "watch"
    /\ ~env.focus_follows_mouse
    /\ trace = <<Call("enternotify",
                      Crossing(W2, NotifyNormal, NotifyAncestor, FALSE), <<>>)>>
    /\ focus = W1
    /\ frameFocus = ClientLeaf

\* ------------------------------------------------------------------- C23
\* the window is one of the manager's own
Internal(r) == r.own \/ r.herbstluft
\* maprequest made the call op
MapCalled(op) == CallsOf(mapSent, {op}) # <<>>
\* manage_client yielded a client whose tag a monitor shows
NewClientShown ==
    \E i \in DOMAIN mapSent, j \in DOMAIN mapSent :
        /\ i < j
        /\ mapSent[i].op = "manage_client"
        /\ mapSent[i].arg[2] # None
        /\ mapSent[j] = Call("find_monitor_with_tag", NoEvent,
                             <<mapSent[i].arg[2], TRUE>>)

\* C23: a MapRequest for a window that is a managed client and not one of
\* the manager's own sets the client's minimized_ to false and maps nothing;
\* maprequest calls XMapWindow only for a window of the manager's own whose
\* attributes can be fetched, for a window it registered as desktop, for a
\* window it registered as panel, or for a client manage_client has just
\* yielded whose tag a monitor shows.
C23_MapsOnlyWhatItShould ==
    mapDone =>
        /\ (mapreq.managed /\ ~Internal(mapreq))
              => /\ minimized_ = FALSE
                 /\ ~MapCalled("XMapWindow")
        /\ MapCalled("XMapWindow")
              => \/ Internal(mapreq) /\ mapreq.extant
                 \/ /\ ~Internal(mapreq)
                    /\ ~mapreq.managed
                    /\ \/ MapCalled("registerDesktop")
                       \/ MapCalled("registerPanel")
                       \/ NewClientShown

\* a minimized client asks to be mapped
C23_Witness ==
    /\ mapDone
    /\ mapreq.managed
    /\ mapreq.minimized_
    /\ ~Internal(mapreq)
    /\ minimized_ = FALSE
    /\ mapSent = <<>>

\* ------------------------------------------------------------------- C24
\* C24: the lookup in run() is within the bounds of handlerTable_ for every
\* event XNextEvent can return, and an event of a type of LASTEvent or above
\* is treated as one without a handler.
C24_LookupWithinTable ==
    handler # "unread" =>
        /\ ~outside
        /\ delivered.type >= LASTEvent => handler = "nullptr"

\* ------------------------------------------------------------------- C25
\* C25: when scanExistingClients has returned, every window is in at most one
\* of the classes managed client, panel and desktop window, and no window of
\* the manager's own is a managed client.
C25_OneClassEach ==
    spc = "done" =>
        \A win \in ScanWindows :
            /\ ~(win \in managedClients /\ win \in panels \cup desktops)
            /\ ~(win \in panels /\ win \in desktops)
            /\ world[win].own => win \notin managedClients

\* ------------------------------------------------------------------- C26
\* the places where manage_client yielded no client, in the first pass of the
\* scan and in maprequest
FirstPassNone ==
    {i \in DOMAIN scanCalls :
        /\ scanCalls[i].op = "manage_client"
        /\ scanCalls[i].c = None
        /\ (i = 1 \/ scanCalls[i - 1].op # "XReparentWindow")}
MapRequestNone ==
    {i \in DOMAIN mapSent :
        mapSent[i].op = "manage_client" /\ mapSent[i].arg[2] = None}

\* C26: when manage_client yields no client, in the first pass of the scan
\* and in maprequest, no property of a client is read, the window is not
\* mapped, and the scan goes on with the next window or maprequest returns.
C26_ClientUsedOnlyWhenPresent ==
    /\ spc # "crashed"
    /\ \A i \in FirstPassNone :
          \A j \in DOMAIN scanCalls :
              (j > i /\ scanCalls[j].win = scanCalls[i].win)
                  => scanCalls[j].op \notin {"tag", "XMapWindow"}
                     \/ \E k \in (i + 1)..(j - 1) :
                           /\ scanCalls[k].op = "manage_client"
                           /\ scanCalls[k].c # None
    /\ \A i \in MapRequestNone :
          \A j \in DOMAIN mapSent :
              j > i => mapSent[j].op \notin {"find_monitor_with_tag", "XMapWindow"}

====
